---- MODULE Spec2Model ----
\* A model of the iodine core extension (ext/core/core.c, ext/core/rb-call.c):
\* the bridge between the lib-server reactor (the Network Core) and the Ruby
\* protocol objects.  Worker threads of the reactor run the dispatch handlers
\* and the async tasks of core.c; every entry into Ruby goes through the
\* RubyCaller gateway of rb-call.c.
EXTENDS Integers, Sequences, FiniteSets, TLC

VARIABLES
  settings,   \* struct ServerSettings handed to Server.listen (threads)
  conn,       \* reactor: per fd, "closed" or "open"; "gone": closed by close(fd)
  closing,    \* reactor: the fds Server.close was called for, close event pending
  udata,      \* reactor: the per-fd user-data slot (slot 0 holds the protocol class)
  registry,   \* the Registry (rb-registry): the values kept alive
  sockfd,     \* per protocol object: its sockfd/server attributes (-1: not set)
  nextObj,    \* the next protocol object the runtime constructs
  blocks,     \* per block (Proc) passed to run/defer: what it is and how it was queued
  nextBlk,    \* the next block the runtime creates
  queue,      \* reactor: the submitted tasks not yet started
  wk,         \* per worker thread: its position in a handler or task
  gvl,        \* the worker holding the runtime's execution right (0: none of them)
  errinfo,    \* the runtime's pending error (rb_errinfo) is set
  crashed,    \* the process died (undefined behaviour took the fatal outcome)
  opened,     \* history, per fd: the open handler invoked on_open on this connection
  closes,     \* history, per fd: on_close invocations since the last open event
  pingLog,    \* what the default ping method in progress asked of the reactor
  cfg,        \* Iodine#start: the attributes of the server object
  startPc,    \* Iodine#start: where srv_start is
  startErr,   \* Iodine#start: the field the raised error names
  rd          \* Protocol#on_data (default): the read loop's state

vars == <<settings, conn, closing, udata, registry, sockfd, nextObj, blocks,
          nextBlk, queue, wk, gvl, errinfo, crashed, opened, closes, pingLog,
          cfg, startPc, startErr, rd>>

coreVars == <<settings, conn, closing, udata, registry, sockfd, nextObj, blocks,
              nextBlk, queue, wk, gvl, errinfo, crashed, opened, closes, pingLog>>

startVars == <<cfg, startPc, startErr>>

sideVars == <<cfg, startPc, startErr, rd>>

----------------------------------------------------------------------------
\* Bounds of the model.

\* connections use the fds 1..MaxFd
MaxFd == 1
\* protocol objects constructed in one run
MaxObj == 2
\* blocks passed to run/defer in one run
MaxBlk == 1
\* helper calls one callback body makes
MaxOps == 1
\* reactor worker threads
NWorkers == 2
\* reads one default on_data performs
MaxReads == 6

\* The fds of the connections the reactor accepts, and the slots of its
\* user-data table: the connections' fds and fd 0.
ConnFds == DOMAIN conn
Fds == DOMAIN udata
Objs == 1..MaxObj
Blks == 1..MaxBlk
Workers == 1..NWorkers

----------------------------------------------------------------------------
\* Runtime values (VALUE).  NULL is the C null pointer of an unset user-data
\* slot, Qnil the runtime's nil.

NULL == [t |-> "null", id |-> 0]
Qnil == [t |-> "nil", id |-> 0]
rProtocolClass == [t |-> "class", id |-> 0]
Obj(i) == [t |-> "obj", id |-> i]
Blk(b) == [t |-> "blk", id |-> b]

Min(a, b) == IF a < b THEN a ELSE b

----------------------------------------------------------------------------
\* The Registry (rb-registry.h): a set of values kept reachable.

Registry_add(reg, v) == reg \cup {v}
Registry_remove(reg, v) == reg \ {v}

\* The reactor's user-data slots.
get_udata(fd) == udata[fd]
set_udata(ud, fd, v) == [ud EXCEPT ![fd] = v]

\* Server.close(srv, fd): the reactor closes the connection and will deliver
\* its close event.
Server_close(cl, fd) == IF fd \in ConnFds THEN cl \cup {fd} ELSE cl

----------------------------------------------------------------------------
\* Worker threads of the reactor.

\* noblk: what became of a run/defer call made with no block in this callback
Idle == [pc |-> "idle", kind |-> "none", fd |-> 0, prot |-> NULL, self |-> 0, ops |-> 0,
         noblk |-> "none"]

NoBlock == [self |-> 0, via |-> "none", fd |-> 0, scope |-> "none", runs |-> 0]

NoPing == [fd |-> 0, asked |-> 0, busy |-> FALSE, close |-> {}, touch |-> {}]

HandlerKinds == {"open", "data", "ping", "shutdown", "close"}
TaskKinds == {"gtask", "btask"}

\* The reactor hands an event or a task to an idle worker (idle workers are
\* alike: the first one takes it); in non-concurrent mode (threads < 0) one
\* worker runs at a time.
CoreFree(w) ==
  /\ ~crashed
  /\ wk[w].pc = "idle"
  /\ \A v \in Workers : v < w => wk[v].pc # "idle"
  /\ settings.threads < 0 => \A v \in Workers : wk[v].pc = "idle"

\* The reactor's per-connection exclusivity: no handler and no bound task of
\* fd f is running.
FdFree(f) ==
  \A v \in Workers : ~(wk[v].kind \in HandlerKinds \cup {"btask"} /\ wk[v].fd = f)

\* The object Ruby code runs on: the protocol object of a handler, the object
\* whose method created the block of a task.
Receiver(w) ==
  IF wk[w].kind \in TaskKinds THEN blocks[wk[w].prot.id].self ELSE wk[w].prot.id

----------------------------------------------------------------------------
\* rb-call.c: the gateway.

Exceptions == {"str", "nomsg"}

\* handle_exception: prints "<class>: <mesg>" with RSTRING_LEN/RSTRING_PTR of
\* the exception's mesg and clears the pending error.  For an exception whose
\* mesg is not a String (raise SomeError with no message leaves it nil) the
\* macros read through a non-string VALUE: undefined behaviour, which either
\* prints garbage and goes on or kills the process.
handle_exception(exc) ==
  IF exc = "str" THEN {"returned"} ELSE {"returned", "crashed"}

\* rb_set_errinfo(Qnil) at the end of handle_exception: no error stays pending.
errinfo_after_handle == FALSE

\* RubyCaller.call: rb_thread_call_with_gvl blocks until the execution right
\* is free, then runs the method under rb_protect.
call_enter(w) ==
  /\ UNCHANGED sideVars
  /\ ~crashed
  /\ wk[w].pc = "h_call"
  /\ gvl = 0
  /\ gvl' = w
  /\ wk' = [wk EXCEPT ![w].pc = "ruby", ![w].self = Receiver(w), ![w].ops = 0]
  /\ opened' = IF wk[w].kind = "open"
                 THEN [opened EXCEPT ![wk[w].fd] = TRUE] ELSE opened
  /\ closes' = IF wk[w].kind = "close"
                 THEN [closes EXCEPT ![wk[w].fd] = Min(@ + 1, 2)] ELSE closes
  /\ blocks' = IF wk[w].kind \in TaskKinds
                 THEN [blocks EXCEPT ![wk[w].prot.id].runs = Min(@ + 1, 2)] ELSE blocks
  /\ UNCHANGED <<settings, conn, closing, udata, registry, sockfd, nextObj,
                 nextBlk, queue, errinfo, crashed, pingLog>>

\* Where the handler or task runner goes on after RubyCaller.call returned.
AfterCall(w) ==
  CASE wk[w].kind = "close" ->
         [wk[w] EXCEPT !.pc = "close_rm", !.self = 0, !.ops = 0, !.noblk = "none"]
    [] wk[w].kind \in TaskKinds ->
         [wk[w] EXCEPT !.pc = "task_rm", !.self = 0, !.ops = 0, !.noblk = "none"]
    [] OTHER -> Idle

\* The method returns: the gateway hands the result back and leaves the
\* runtime (rb_thread_call_with_gvl returns).
call_return(w) ==
  /\ UNCHANGED sideVars
  /\ ~crashed
  /\ wk[w].pc = "ruby"
  /\ gvl = w
  /\ gvl' = 0
  /\ wk' = [wk EXCEPT ![w] = AfterCall(w)]
  /\ UNCHANGED <<settings, conn, closing, udata, registry, sockfd, nextObj, blocks,
                 nextBlk, queue, errinfo, crashed, opened, closes, pingLog>>

\* The method raises: rb_protect returns with state != 0, handle_exception
\* runs, and the gateway returns Qnil.
call_raise(w) ==
  /\ UNCHANGED sideVars
  /\ ~crashed
  /\ wk[w].pc = "ruby"
  /\ gvl = w
  /\ \E exc \in Exceptions : \E out \in handle_exception(exc) :
       IF out = "crashed"
         THEN /\ crashed' = TRUE
              /\ errinfo' = TRUE
              /\ UNCHANGED <<gvl, wk>>
         ELSE /\ crashed' = FALSE
              /\ errinfo' = errinfo_after_handle
              /\ gvl' = 0
              /\ wk' = [wk EXCEPT ![w] = AfterCall(w)]
  /\ UNCHANGED <<settings, conn, closing, udata, registry, sockfd, nextObj, blocks,
                 nextBlk, queue, opened, closes, pingLog>>

----------------------------------------------------------------------------
\* core.c: the dispatch handlers.

\* accept returns an fd the operating system has free: one with no connection,
\* or one that was closed behind the reactor's back.
FdUnused(f) == conn[f] \in {"closed", "gone"}

\* on_open, up to its first call into the runtime: the class is read from
\* slot 0.  The reactor delivers open for a free fd only.
on_open(w, f) ==
  /\ UNCHANGED sideVars
  /\ CoreFree(w)
  /\ FdFree(f)
  /\ FdUnused(f)
  /\ nextObj <= MaxObj
  /\ conn' = [conn EXCEPT ![f] = "open"]
  /\ closing' = closing \ {f}
  /\ opened' = [opened EXCEPT ![f] = FALSE]
  /\ closes' = [closes EXCEPT ![f] = 0]
  /\ wk' = [wk EXCEPT ![w] = [Idle EXCEPT !.pc = "open_new", !.kind = "open",
                                          !.fd = f, !.prot = get_udata(0)]]
  /\ UNCHANGED <<settings, udata, registry, sockfd, nextObj, blocks, nextBlk,
                 queue, gvl, errinfo, crashed, pingLog>>

\* protocol = RubyCaller.call(protocol, new): the constructor runs under the
\* gateway, which is left again before the handler goes on; a constructor that
\* returns nil or raises gives Qnil, and the handler closes the connection
\* and returns.
on_open_new(w) ==
  /\ UNCHANGED sideVars
  /\ ~crashed
  /\ wk[w].pc = "open_new"
  /\ gvl = 0
  /\ \/ /\ wk[w].prot.t = "class"
        /\ nextObj <= MaxObj
        /\ nextObj' = nextObj + 1
        /\ wk' = [wk EXCEPT ![w].pc = "open_reg", ![w].prot = Obj(nextObj)]
        /\ UNCHANGED <<closing, crashed, errinfo>>
     \/ \E exc \in {"none"} \cup Exceptions :
        \E out \in (IF exc = "none" THEN {"returned"} ELSE handle_exception(exc)) :
          IF out = "crashed"
            THEN /\ crashed' = TRUE
                 /\ errinfo' = TRUE
                 /\ UNCHANGED <<closing, nextObj, wk>>
            ELSE /\ crashed' = FALSE
                 /\ errinfo' = errinfo_after_handle
                 /\ closing' = Server_close(closing, wk[w].fd)
                 /\ wk' = [wk EXCEPT ![w] = Idle]
                 /\ UNCHANGED nextObj
  /\ UNCHANGED <<settings, conn, udata, registry, sockfd, blocks, nextBlk, queue,
                 gvl, opened, closes, pingLog>>

\* Registry.add(protocol)
on_open_register(w) ==
  /\ UNCHANGED sideVars
  /\ ~crashed
  /\ wk[w].pc = "open_reg"
  /\ registry' = Registry_add(registry, wk[w].prot)
  /\ wk' = [wk EXCEPT ![w].pc = "open_bind"]
  /\ UNCHANGED <<settings, conn, closing, udata, sockfd, nextObj, blocks, nextBlk,
                 queue, gvl, errinfo, crashed, opened, closes, pingLog>>

\* rb_ivar_set(protocol, fd_var_id / server_var_id) and Server.set_udata
on_open_bind(w) ==
  /\ UNCHANGED sideVars
  /\ ~crashed
  /\ wk[w].pc = "open_bind"
  /\ sockfd' = [sockfd EXCEPT ![wk[w].prot.id] = wk[w].fd]
  /\ udata' = set_udata(udata, wk[w].fd, wk[w].prot)
  /\ wk' = [wk EXCEPT ![w].pc = "h_call"]
  /\ UNCHANGED <<settings, conn, closing, registry, nextObj, blocks, nextBlk,
                 queue, gvl, errinfo, crashed, opened, closes, pingLog>>

\* on_data / ping / on_shutdown / on_close up to the call: the bound object is
\* resolved from the fd's slot, and the handler returns when there is none.
Resolve(w, f, k) ==
  LET protocol == get_udata(f) IN
    wk' = IF protocol = NULL
            THEN wk
            ELSE [wk EXCEPT ![w] = [Idle EXCEPT !.pc = "h_call", !.kind = k,
                                                !.fd = f, !.prot = protocol]]

on_data(w, f) ==
  /\ UNCHANGED sideVars
  /\ CoreFree(w)
  /\ FdFree(f)
  /\ Resolve(w, f, "data")
  /\ UNCHANGED <<settings, conn, closing, udata, registry, sockfd, nextObj, blocks,
                 nextBlk, queue, gvl, errinfo, crashed, opened, closes, pingLog>>

ping(w, f) ==
  /\ UNCHANGED sideVars
  /\ CoreFree(w)
  /\ FdFree(f)
  /\ Resolve(w, f, "ping")
  /\ UNCHANGED <<settings, conn, closing, udata, registry, sockfd, nextObj, blocks,
                 nextBlk, queue, gvl, errinfo, crashed, opened, closes, pingLog>>

\* A shutdown handler that also disconnects: on_shutdown followed by
\* Server.close.
ShutdownDisconnects(w, f) ==
  /\ UNCHANGED sideVars
  /\ CoreFree(w)
  /\ FdFree(f)
  /\ Resolve(w, f, "shutdown")
  /\ closing' = Server_close(closing, f)
  /\ UNCHANGED <<settings, conn, udata, registry, sockfd, nextObj, blocks,
                 nextBlk, queue, gvl, errinfo, crashed, opened, closes, pingLog>>
on_shutdown(w, f) ==
  /\ UNCHANGED sideVars
  /\ CoreFree(w)
  /\ FdFree(f)
  /\ Resolve(w, f, "shutdown")
  /\ UNCHANGED <<settings, conn, closing, udata, registry, sockfd, nextObj, blocks,
                 nextBlk, queue, gvl, errinfo, crashed, opened, closes, pingLog>>

\* The close event ends the connection in the reactor.
on_close(w, f) ==
  /\ UNCHANGED sideVars
  /\ CoreFree(w)
  /\ FdFree(f)
  /\ Resolve(w, f, "close")
  /\ conn' = [conn EXCEPT ![f] = "closed"]
  /\ closing' = closing \ {f}
  /\ UNCHANGED <<settings, udata, registry, sockfd, nextObj, blocks, nextBlk,
                 queue, gvl, errinfo, crashed, opened, closes, pingLog>>

\* Registry.remove(protocol), after on_close returned
on_close_remove(w) ==
  /\ UNCHANGED sideVars
  /\ ~crashed
  /\ wk[w].pc = "close_rm"
  /\ registry' = Registry_remove(registry, wk[w].prot)
  /\ wk' = [wk EXCEPT ![w].pc = "close_clr"]
  /\ UNCHANGED <<settings, conn, closing, udata, sockfd, nextObj, blocks, nextBlk,
                 queue, gvl, errinfo, crashed, opened, closes, pingLog>>

\* Server.set_udata(server, fd, 0)
on_close_clear(w) ==
  /\ UNCHANGED sideVars
  /\ ~crashed
  /\ wk[w].pc = "close_clr"
  /\ udata' = set_udata(udata, wk[w].fd, NULL)
  /\ wk' = [wk EXCEPT ![w] = Idle]
  /\ UNCHANGED <<settings, conn, closing, registry, sockfd, nextObj, blocks,
                 nextBlk, queue, gvl, errinfo, crashed, opened, closes, pingLog>>

----------------------------------------------------------------------------
\* core.c: the helper methods a callback body or a block calls on a protocol
\* object while the worker is inside the runtime.

InRuby(w) ==
  /\ ~crashed
  /\ wk[w].pc = "ruby"
  /\ gvl = w
  /\ wk[w].ops < MaxOps
  /\ wk[w].self \in Objs
  /\ sockfd[wk[w].self] # -1

\* srv_upgrade from "set the new protocol at the server's udata" on: the slot
\* of self's fd, the two Registry calls, the attributes of the new object.
UpgradeTo(x, new) ==
  /\ udata' = set_udata(udata, sockfd[x], new)
  /\ registry' = Registry_add(Registry_remove(registry, Obj(x)), new)
  /\ sockfd' = [sockfd EXCEPT ![new.id] = sockfd[x]]

\* upgrade(SomeClass): the instance is constructed by call_unsafe(protocol,
\* new) and on_open is called on it by call_unsafe; an error on_open raises is
\* handled inside call_unsafe.  The code that runs next is the caller's (on
\* self) or the new object's.
srv_upgrade_class(w) ==
  /\ UNCHANGED sideVars
  /\ InRuby(w)
  /\ nextObj <= MaxObj
  /\ \E exc \in {"none"} \cup Exceptions :
     \E out \in (IF exc = "none" THEN {"returned"} ELSE handle_exception(exc)) :
     \E s \in {wk[w].self, nextObj} :
       /\ UpgradeTo(wk[w].self, Obj(nextObj))
       /\ nextObj' = nextObj + 1
       /\ crashed' = (out = "crashed")
       /\ errinfo' = IF out = "crashed" THEN TRUE ELSE errinfo
       /\ wk' = [wk EXCEPT ![w].ops = @ + 1, ![w].self = s]
  /\ UNCHANGED <<settings, conn, closing, blocks, nextBlk, queue, gvl, opened,
                 closes, pingLog>>

\* upgrade that fails: upgrade(nil) returns Qnil at once; for upgrade(SomeClass)
\* whose constructor returns nil or raises, call_unsafe returns Qnil (after
\* handle_exception, for a raise) and srv_upgrade returns Qnil at "make sure
\* everything went as it should".
srv_upgrade_fail(w) ==
  /\ UNCHANGED sideVars
  /\ InRuby(w)
  /\ \E exc \in {"none"} \cup Exceptions :
     \E out \in (IF exc = "none" THEN {"returned"} ELSE handle_exception(exc)) :
       /\ crashed' = (out = "crashed")
       /\ errinfo' = IF out = "crashed" THEN TRUE ELSE errinfo_after_handle
  /\ wk' = [wk EXCEPT ![w].ops = @ + 1]
  /\ UNCHANGED <<settings, conn, closing, udata, registry, sockfd, nextObj, blocks,
                 nextBlk, queue, gvl, opened, closes, pingLog>>

\* upgrade(instance): an already constructed object y, self included.
srv_upgrade_instance(w, y) ==
  /\ UNCHANGED sideVars
  /\ InRuby(w)
  /\ y < nextObj
  /\ UpgradeTo(wk[w].self, Obj(y))
  /\ \E s \in {wk[w].self, y} :
       wk' = [wk EXCEPT ![w].ops = @ + 1, ![w].self = s]
  /\ UNCHANGED <<settings, conn, closing, nextObj, blocks, nextBlk, queue, gvl,
                 errinfo, crashed, opened, closes, pingLog>>

\* How run_protocol_task hands the block to the reactor: Server.fd_task with
\* the fd attribute of self.
DeferGlobal(x) == [scope |-> "global", fd |-> sockfd[x]]
fd_task(x) == [scope |-> "bound", fd |-> sockfd[x]]

\* How run_async hands the block to the reactor: Server.run_async.
run_async_task(x) == [scope |-> "global", fd |-> sockfd[x]]

\* rb_need_block() at the head of run_async / run_protocol_task: a call made
\* with no block raises (LocalJumpError) before anything else is done.
BlockNotNeeded(given) == "go"
rb_need_block(given) == IF given THEN "go" ELSE "raise"

\* Registry.add(block) in run_async / run_protocol_task, made before the block
\* is handed to the reactor.
BlockNotRegistered(reg, blk) == reg
register_block(reg, blk) == Registry_add(reg, blk)

\* run_async / run_protocol_task: without a block the call raises; with
\* threads < 0 the block is yielded to in place (rb_yield); then, in every
\* mode, the block is added to the Registry and handed to the reactor.
Submit(w, via, how, given) ==
  /\ UNCHANGED sideVars
  /\ InRuby(w)
  /\ IF rb_need_block(given) = "raise"
       THEN /\ wk' = [wk EXCEPT ![w].ops = @ + 1, ![w].noblk = "raised"]
            /\ UNCHANGED <<blocks, nextBlk, registry, queue>>
       ELSE /\ nextBlk <= MaxBlk
            /\ blocks' = [blocks EXCEPT ![nextBlk] =
                            [self |-> wk[w].self, via |-> via, fd |-> how.fd,
                             scope |-> how.scope,
                             runs |-> IF settings.threads < 0 THEN 1 ELSE 0]]
            /\ nextBlk' = nextBlk + 1
            /\ registry' = register_block(registry, Blk(nextBlk))
            /\ queue' = queue \cup {nextBlk}
            /\ wk' = [wk EXCEPT ![w].ops = @ + 1,
                                ![w].noblk = IF given THEN @ ELSE "accepted"]
  /\ UNCHANGED <<settings, conn, closing, udata, sockfd, nextObj, gvl, errinfo,
                 crashed, opened, closes, pingLog>>

run_async(w) ==
  \E given \in BOOLEAN : Submit(w, "run", run_async_task(wk[w].self), given)

run_protocol_task(w) ==
  \E given \in BOOLEAN : Submit(w, "defer", fd_task(wk[w].self), given)

\* srv_close: Server.close(srv, fd) with the fd attribute of self.
srv_close(w) ==
  /\ UNCHANGED sideVars
  /\ InRuby(w)
  /\ closing' = Server_close(closing, sockfd[wk[w].self])
  /\ wk' = [wk EXCEPT ![w].ops = @ + 1]
  /\ UNCHANGED <<settings, conn, udata, registry, sockfd, nextObj, blocks, nextBlk,
                 queue, gvl, errinfo, crashed, opened, closes, pingLog>>

\* close(fd) of the operating system: the connection is gone, the reactor is
\* not told.
raw_close(c, fd) ==
  IF fd \in DOMAIN c /\ c[fd] = "open" THEN [c EXCEPT ![fd] = "gone"] ELSE c

\* srv_force_close: close(fd) with the fd attribute of self.
srv_force_close(w) ==
  /\ UNCHANGED sideVars
  /\ InRuby(w)
  /\ conn' = raw_close(conn, sockfd[wk[w].self])
  /\ wk' = [wk EXCEPT ![w].ops = @ + 1]
  /\ UNCHANGED <<settings, closing, udata, registry, sockfd, nextObj, blocks,
                 nextBlk, queue, gvl, errinfo, crashed, opened, closes, pingLog>>

\* no_ping_func, the default ping method: what it asks of the reactor, given
\* the answer of Server.is_busy.
PingSwapped(busy, fd) ==
  IF busy THEN [close |-> {fd}, touch |-> {}] ELSE [close |-> {}, touch |-> {fd}]
no_ping_func(busy, fd) ==
  IF ~busy THEN [close |-> {fd}, touch |-> {}] ELSE [close |-> {}, touch |-> {fd}]

\* The ping handler calls the object's ping method whatever the connection's
\* state: a method the object's class defines runs like any callback body
\* (call_enter); this is the call when the class does not override ping:
\* no_ping_func runs under the gateway with the fd attribute of the object;
\* the reactor answers is_busy.
ping_default(w) ==
  /\ UNCHANGED sideVars
  /\ ~crashed
  /\ wk[w].pc = "h_call"
  /\ wk[w].kind = "ping"
  /\ wk[w].prot.t = "obj"
  /\ gvl = 0
  /\ \E busy \in BOOLEAN :
       LET fd == sockfd[wk[w].prot.id]
           did == no_ping_func(busy, fd)
       IN /\ pingLog' = [fd |-> wk[w].fd, asked |-> fd, busy |-> busy,
                         close |-> did.close, touch |-> did.touch]
          /\ closing' = IF did.close = {} THEN closing ELSE Server_close(closing, fd)
  /\ wk' = [wk EXCEPT ![w].pc = "ping_ret"]
  /\ UNCHANGED <<settings, conn, udata, registry, sockfd, nextObj, blocks, nextBlk,
                 queue, gvl, errinfo, crashed, opened, closes>>

\* The ping handler returns to the reactor.
ping_return(w) ==
  /\ UNCHANGED sideVars
  /\ ~crashed
  /\ wk[w].pc = "ping_ret"
  /\ wk' = [wk EXCEPT ![w] = Idle]
  /\ pingLog' = NoPing
  /\ UNCHANGED <<settings, conn, closing, udata, registry, sockfd, nextObj, blocks,
                 nextBlk, queue, gvl, errinfo, crashed, opened, closes>>

----------------------------------------------------------------------------
\* core.c: the task runners.

\* perform_async, up to its call: the reactor runs a global task on any
\* worker.
perform_async(w, b) ==
  /\ UNCHANGED sideVars
  /\ CoreFree(w)
  /\ b \in queue
  /\ blocks[b].scope = "global"
  /\ queue' = queue \ {b}
  /\ wk' = [wk EXCEPT ![w] = [Idle EXCEPT !.pc = "h_call", !.kind = "gtask",
                                          !.prot = Blk(b)]]
  /\ UNCHANGED <<settings, conn, closing, udata, registry, sockfd, nextObj, blocks,
                 nextBlk, gvl, errinfo, crashed, opened, closes, pingLog>>

\* perform_protocol_async, up to its call: the reactor runs a task bound to an
\* fd when no handler and no other bound task of that fd is running.
perform_protocol_async(w, b) ==
  /\ UNCHANGED sideVars
  /\ CoreFree(w)
  /\ b \in queue
  /\ blocks[b].scope = "bound"
  /\ FdFree(blocks[b].fd)
  /\ queue' = queue \ {b}
  /\ wk' = [wk EXCEPT ![w] = [Idle EXCEPT !.pc = "h_call", !.kind = "btask",
                                          !.fd = blocks[b].fd, !.prot = Blk(b)]]
  /\ UNCHANGED <<settings, conn, closing, udata, registry, sockfd, nextObj, blocks,
                 nextBlk, gvl, errinfo, crashed, opened, closes, pingLog>>

\* Registry.remove(task), after the block returned
perform_remove(w) ==
  /\ UNCHANGED sideVars
  /\ ~crashed
  /\ wk[w].pc = "task_rm"
  /\ registry' = Registry_remove(registry, wk[w].prot)
  /\ wk' = [wk EXCEPT ![w] = Idle]
  /\ UNCHANGED <<settings, conn, closing, udata, sockfd, nextObj, blocks, nextBlk,
                 queue, gvl, errinfo, crashed, opened, closes, pingLog>>

----------------------------------------------------------------------------
\* core.c: srv_start, the validation of the server object's attributes.

\* The values an attribute is drawn from: nil, a Fixnum, a Float, a String,
\* a class.  The n of a Float is the number FIX2INT makes of its bits, which
\* can be any.
Val(t, n) == [t |-> t, n |-> n]
PortNums == {-1, 0, 3000, 65535, 65536, 70000}
TimeoutNums == {-1, 0, 10, 255, 256}
ThreadNums == {-2, -1, 0, 1, 128, 129, 500}
ProcessNums == {0, 1, 32, 33, 100}

Configs ==
  [protocol : {Val("class", 0), Val("nil", 0), Val("string", 0)},
   port : {Val("nil", 0), Val("string", 0)} \cup {Val("fixnum", n) : n \in PortNums},
   address : {Val("nil", 0), Val("string", 0), Val("fixnum", 0)},
   timeout : {Val("nil", 0), Val("string", 0)} \cup {Val("fixnum", n) : n \in TimeoutNums},
   threads : {Val("nil", 0), Val("float", 1), Val("float", 500)} \cup {Val("fixnum", n) : n \in ThreadNums},
   processes : {Val("nil", 0), Val("float", 1), Val("float", 100)} \cup {Val("fixnum", n) : n \in ProcessNums},
   busy_msg : {Val("nil", 0), Val("string", 0), Val("fixnum", 0)}]

\* port: "if (iport > 65535 || iport < 0)" raises
PortAnyNumber(iport) == FALSE
PortOutOfRange(iport) == iport > 65535 \/ iport < 0

\* timeout: the range part of the test
TimeoutOutOfRange(n) == n > 255 \/ n < 0

\* processes / threads: "rb_x != Qnil && TYPE(rb_x) != T_FIXNUM &&
\* FIX2INT(rb_x) > limit" raises: for a Fixnum the second conjunct is false.
CountRejected(v, limit) == v.t # "nil" /\ v.t # "fixnum" /\ v.n > limit

\* The field srv_start raises for, in the order of its tests, or "none".
srv_start_error(c) ==
  IF c.protocol.t # "class" THEN "protocol"
  ELSE IF c.port.t # "nil" /\ c.port.t # "fixnum" THEN "port"
  ELSE IF PortOutOfRange(IF c.port.t = "nil" THEN 3000 ELSE c.port.n) THEN "port"
  ELSE IF c.address.t # "nil" /\ c.address.t # "string" THEN "address"
  ELSE IF c.timeout.t # "nil" /\ (c.timeout.t # "fixnum" \/ TimeoutOutOfRange(c.timeout.n))
    THEN "timeout"
  ELSE IF CountRejected(c.processes, 32) THEN "processes"
  ELSE IF CountRejected(c.threads, 128) THEN "threads"
  ELSE IF c.busy_msg.t # "nil" /\ c.busy_msg.t # "string" THEN "busy_msg"
  ELSE "none"

\* struct ServerSettings settings = { .threads = ..., .processes = ... }
MkSettings(c) ==
  [threads |-> IF c.threads.t = "nil" THEN 0 ELSE c.threads.n,
   processes |-> IF c.processes.t = "nil" THEN 0 ELSE c.processes.n]

\* srv_start up to the end of its validation: rb_raise leaves the method.
srv_start ==
  /\ startPc = "init"
  /\ startErr' = srv_start_error(cfg)
  /\ startPc' = IF srv_start_error(cfg) = "none" THEN "validated" ELSE "raised"
  /\ UNCHANGED <<cfg, rd>>
  /\ UNCHANGED coreVars

\* The thread that called Iodine#start: it runs srv_start inside the runtime,
\* holding the execution right.
MainThread == NWorkers + 1

\* rb_thread_call_without_gvl: the calling thread gives the execution right up
\* for the time of the call.
KeepsGvl(holder) == holder
without_gvl(holder) == 0

\* rb_thread_call_without_gvl(srv_start_no_gvl, &settings, unblck, NULL):
\* Server.listen is called with the settings built from the attributes.
srv_start_no_gvl ==
  /\ startPc = "validated"
  /\ gvl = MainThread
  /\ startPc' = "listening"
  /\ settings' = MkSettings(cfg)
  /\ gvl' = without_gvl(MainThread)
  /\ UNCHANGED <<cfg, startErr, rd>>
  /\ UNCHANGED <<conn, closing, udata, registry, sockfd, nextObj, blocks,
                 nextBlk, queue, wk, errinfo, crashed, opened, closes, pingLog>>

----------------------------------------------------------------------------
\* The server after a successful start.

ThreadModes == {-1, 1}

DefaultCfg ==
  [protocol |-> [t |-> "class", n |-> 0], port |-> [t |-> "nil", n |-> 0],
   address |-> [t |-> "nil", n |-> 0], timeout |-> [t |-> "nil", n |-> 0],
   threads |-> [t |-> "nil", n |-> 0], processes |-> [t |-> "nil", n |-> 0],
   busy_msg |-> [t |-> "nil", n |-> 0]]

NoRead == [pc |-> "off", len |-> 0, reads |-> <<>>, msgs |-> <<>>]

\* on_init has stored the protocol class in slot 0; nothing is connected.
CoreInitOn(fds) ==
  /\ conn = [f \in fds |-> "closed"]
  /\ closing = {}
  /\ udata = [f \in fds \cup {0} |-> IF f = 0 THEN rProtocolClass ELSE NULL]
  /\ registry = {}
  /\ sockfd = [i \in Objs |-> -1]
  /\ nextObj = 1
  /\ blocks = [b \in Blks |-> NoBlock]
  /\ nextBlk = 1
  /\ queue = {}
  /\ wk = [w \in Workers |-> Idle]
  /\ errinfo = FALSE
  /\ crashed = FALSE
  /\ opened = [f \in fds |-> FALSE]
  /\ closes = [f \in fds |-> 0]
  /\ pingLog = NoPing

CoreInit == CoreInitOn(1..MaxFd)

Init ==
  /\ \E t \in ThreadModes : cfg = [DefaultCfg EXCEPT !.threads = Val("fixnum", t)]
  /\ settings = MkSettings(cfg)
  /\ CoreInit
  /\ gvl = 0
  /\ startPc = "listening"
  /\ startErr = "none"
  /\ rd = NoRead

Next ==
  \/ \E w \in Workers, f \in ConnFds : on_open(w, f)
  \/ \E w \in Workers : on_open_new(w)
  \/ \E w \in Workers : on_open_register(w)
  \/ \E w \in Workers : on_open_bind(w)
  \/ \E w \in Workers, f \in ConnFds : on_data(w, f)
  \/ \E w \in Workers, f \in ConnFds : ping(w, f)
  \/ \E w \in Workers, f \in ConnFds : on_shutdown(w, f)
  \/ \E w \in Workers, f \in ConnFds : on_close(w, f)
  \/ \E w \in Workers : on_close_remove(w)
  \/ \E w \in Workers : on_close_clear(w)
  \/ \E w \in Workers : call_enter(w)
  \/ \E w \in Workers : call_return(w)
  \/ \E w \in Workers : call_raise(w)
  \/ \E w \in Workers : ping_default(w)
  \/ \E w \in Workers : ping_return(w)
  \/ \E w \in Workers : srv_upgrade_class(w)
  \/ \E w \in Workers : srv_upgrade_fail(w)
  \/ \E w \in Workers, y \in Objs : srv_upgrade_instance(w, y)
  \/ \E w \in Workers : run_async(w)
  \/ \E w \in Workers : run_protocol_task(w)
  \/ \E w \in Workers : srv_close(w)
  \/ \E w \in Workers, b \in Blks : perform_async(w, b)
  \/ \E w \in Workers, b \in Blks : perform_protocol_async(w, b)
  \/ \E w \in Workers : perform_remove(w)

Spec == Init /\ [][Next]_vars

\* The same reactor and callbacks, with callback bodies and blocks that also
\* call force_close.
NextForce ==
  \/ Next
  \/ \E w \in Workers : srv_force_close(w)

SpecForce == Init /\ [][NextForce]_vars

----------------------------------------------------------------------------
\* Two connections at a time, on the fds 1..MaxFd+1, served by a reactor that
\* runs one worker thread.

Reactor == {1}

InitPair ==
  /\ cfg = [DefaultCfg EXCEPT !.threads = Val("fixnum", 1)]
  /\ settings = MkSettings(cfg)
  /\ CoreInitOn(1..(MaxFd + 1))
  /\ gvl = 0
  /\ startPc = "listening"
  /\ startErr = "none"
  /\ rd = NoRead

NextPair ==
  \/ \E w \in Reactor, f \in ConnFds : on_open(w, f)
  \/ \E w \in Reactor : on_open_new(w)
  \/ \E w \in Reactor : on_open_register(w)
  \/ \E w \in Reactor : on_open_bind(w)
  \/ \E w \in Reactor, f \in ConnFds : on_data(w, f)
  \/ \E w \in Reactor, f \in ConnFds : ping(w, f)
  \/ \E w \in Reactor, f \in ConnFds : on_shutdown(w, f)
  \/ \E w \in Reactor, f \in ConnFds : on_close(w, f)
  \/ \E w \in Reactor : on_close_remove(w)
  \/ \E w \in Reactor : on_close_clear(w)
  \/ \E w \in Reactor : call_enter(w)
  \/ \E w \in Reactor : call_return(w)
  \/ \E w \in Reactor : call_raise(w)
  \/ \E w \in Reactor : ping_default(w)
  \/ \E w \in Reactor : ping_return(w)
  \/ \E w \in Reactor : srv_upgrade_class(w)
  \/ \E w \in Reactor : srv_upgrade_fail(w)
  \/ \E w \in Reactor, y \in Objs : srv_upgrade_instance(w, y)
  \/ \E w \in Reactor : run_async(w)
  \/ \E w \in Reactor : run_protocol_task(w)
  \/ \E w \in Reactor : srv_close(w)
  \/ \E w \in Reactor, b \in Blks : perform_async(w, b)
  \/ \E w \in Reactor, b \in Blks : perform_protocol_async(w, b)
  \/ \E w \in Reactor : perform_remove(w)

SpecPair == InitPair /\ [][NextPair]_vars

----------------------------------------------------------------------------
\* A reactor whose accepted connections get the fds 0..MaxFd-1: fd 0 is free
\* for accept when the process runs with its standard input closed.

InitZero ==
  /\ \E t \in ThreadModes : cfg = [DefaultCfg EXCEPT !.threads = Val("fixnum", t)]
  /\ settings = MkSettings(cfg)
  /\ CoreInitOn(0..(MaxFd - 1))
  /\ gvl = 0
  /\ startPc = "listening"
  /\ startErr = "none"
  /\ rd = NoRead

SpecZero == InitZero /\ [][Next]_vars

----------------------------------------------------------------------------
\* Iodine#start on a server object with any attributes.

InitStart ==
  /\ cfg \in Configs
  /\ settings = [threads |-> 0, processes |-> 0]
  /\ CoreInit
  /\ gvl = MainThread
  /\ startPc = "init"
  /\ startErr = "none"
  /\ rd = NoRead

NextStart ==
  \/ srv_start
  \/ srv_start_no_gvl

SpecStart == InitStart /\ [][NextStart]_vars

----------------------------------------------------------------------------
\* Iodine#start from its call to its return: the validation, the listen loop
\* run without the execution right, the runtime's shutdown signal.

listenVars == <<settings, conn, closing, udata, registry, sockfd, nextObj, blocks,
                nextBlk, queue, wk, errinfo, crashed, opened, closes, pingLog,
                cfg, rd>>

\* unblck, the unblocking function handed to rb_thread_call_without_gvl: the
\* runtime calls it when it signals shutdown to the blocked thread, and it
\* calls Server.stop_all.
unblck ==
  /\ startPc = "listening"
  /\ startPc' = "stopping"
  /\ UNCHANGED <<gvl, startErr>>
  /\ UNCHANGED listenVars

\* Server.listen returns after stop_all stopped the reactor, and
\* srv_start_no_gvl returns.
listen_stopped ==
  /\ startPc = "stopping"
  /\ startPc' = "stopped"
  /\ UNCHANGED <<gvl, startErr>>
  /\ UNCHANGED listenVars

\* Server.listen fails (ret < 0): srv_start_no_gvl reports it with perror and
\* returns.
listen_failed ==
  /\ startPc = "listening"
  /\ startPc' = "stopped"
  /\ startErr' = "listen"
  /\ UNCHANGED gvl
  /\ UNCHANGED listenVars

\* rb_thread_call_without_gvl returns: the starting thread has the execution
\* right again, and srv_start returns Qnil.
srv_start_return ==
  /\ startPc = "stopped"
  /\ gvl = 0
  /\ gvl' = MainThread
  /\ startPc' = "done"
  /\ UNCHANGED startErr
  /\ UNCHANGED listenVars

\* While the starting thread is in rb_thread_call_without_gvl, another thread
\* (a worker in RubyCaller.call) takes the execution right and gives it back.
thread_take(w) ==
  /\ startPc \in {"listening", "stopping", "stopped"}
  /\ gvl = 0
  /\ gvl' = w
  /\ UNCHANGED <<startPc, startErr>>
  /\ UNCHANGED listenVars

thread_give(w) ==
  /\ gvl = w
  /\ gvl' = 0
  /\ UNCHANGED <<startPc, startErr>>
  /\ UNCHANGED listenVars

\* The attributes the listen runs are started with.
ListenConfigs ==
  {[DefaultCfg EXCEPT !.threads = t, !.processes = p, !.port = q] :
     t \in {Val("nil", 0)} \cup {Val("fixnum", n) : n \in ThreadNums},
     p \in {Val("nil", 0)} \cup {Val("fixnum", n) : n \in ProcessNums},
     q \in {Val("nil", 0), Val("fixnum", 3000), Val("fixnum", 70000)}}

InitListen ==
  /\ cfg \in ListenConfigs
  /\ settings = [threads |-> 0, processes |-> 0]
  /\ CoreInit
  /\ gvl = MainThread
  /\ startPc = "init"
  /\ startErr = "none"
  /\ rd = NoRead

NextListen ==
  \/ srv_start
  \/ srv_start_no_gvl
  \/ unblck
  \/ listen_stopped
  \/ listen_failed
  \/ srv_start_return
  \/ \E w \in Workers : thread_take(w)
  \/ \E w \in Workers : thread_give(w)

\* The reactor stops once stop_all was called, a thread inside the runtime
\* leaves it, and a thread waiting for the execution right gets it.
SpecListen ==
  /\ InitListen
  /\ [][NextListen]_vars
  /\ WF_vars(listen_stopped)
  /\ WF_vars(\E w \in Workers : thread_give(w))
  /\ SF_vars(srv_start_return)

----------------------------------------------------------------------------
\* core.c: def_on_data, the default on_data method, with srv_read.

\* rb_str_buf_new(1024): the capacity of the read buffer
BuffCap == 1024

\* What Server.read(fd, ptr, len) returns: an error, nothing, or up to len bytes.
ReadResults == {-1, 0, 1, 512, BuffCap - 1, BuffCap}

\* srv_read: "if (in > 0) rb_str_set_len(str, in) else rb_str_set_len(str, 0)"
ReadLenRaw(in) == in
srv_read_len(in) == IF in > 0 THEN in ELSE 0

\* def_on_data: "while (RSTRING_LEN(buff) == rb_str_capacity(buff))"
AgainWhileData(len, cap) == len > 0
def_on_data_again(len, cap) == len = cap

\* srv_read(1, &buff, self): one read into the buffer
srv_read ==
  /\ rd.pc = "read"
  /\ Len(rd.reads) < MaxReads
  /\ \E in \in ReadResults :
       rd' = [rd EXCEPT !.pc = "check", !.len = srv_read_len(in),
                        !.reads = Append(@, in)]
  /\ UNCHANGED <<cfg, startPc, startErr>>
  /\ UNCHANGED coreVars

\* "if (!RSTRING_LEN(buff)) return Qnil;" and rb_funcall(self, on_message,
\* buff).  on_message leaves the buffer as it is (as def_on_message does); an
\* error it raises is not caught here and ends def_on_data.
def_on_data_message ==
  /\ rd.pc = "check"
  /\ \E raises \in BOOLEAN :
       rd' = IF rd.len = 0
               THEN [rd EXCEPT !.pc = "done"]
               ELSE [rd EXCEPT !.pc = IF raises THEN "raised" ELSE "loop",
                                !.msgs = Append(@, rd.len)]
  /\ UNCHANGED <<cfg, startPc, startErr>>
  /\ UNCHANGED coreVars

\* the loop condition
def_on_data_loop ==
  /\ rd.pc = "loop"
  /\ rd' = [rd EXCEPT !.pc = IF def_on_data_again(rd.len, BuffCap) THEN "read" ELSE "done"]
  /\ UNCHANGED <<cfg, startPc, startErr>>
  /\ UNCHANGED coreVars

\* The buffer attribute is nil (len 0, allocated now) or the string a previous
\* on_data left, with the length of its last read.
InitData ==
  /\ rd \in [pc : {"read"}, len : {0, 1, BuffCap - 1, BuffCap}, reads : {<<>>},
             msgs : {<<>>}]
  /\ cfg = DefaultCfg
  /\ settings = MkSettings(cfg)
  /\ CoreInit
  /\ gvl = 0
  /\ startPc = "listening"
  /\ startErr = "none"

NextData ==
  \/ srv_read
  \/ def_on_data_message
  \/ def_on_data_loop

SpecData == InitData /\ [][NextData]_vars

\* def_on_data runs on one thread that goes on to its next statement: a step
\* that is possible is eventually taken.
SpecDataLive == SpecData /\ WF_vars(NextData)

----------------------------------------------------------------------------
\* Properties.

Quiescent == \A w \in Workers : wk[w].pc = "idle"

\* The fds with an open connection that has a bound object.
BoundFds == {f \in ConnFds : conn[f] = "open" /\ udata[f] # NULL}

\* The workers inside a dispatch handler of fd f or inside a block that was
\* submitted with defer for fd f.
CallbacksOf(f) ==
  {w \in Workers :
     \/ wk[w].kind \in HandlerKinds /\ wk[w].fd = f
     \/ /\ wk[w].kind \in TaskKinds
        /\ blocks[wk[w].prot.id].via = "defer"
        /\ blocks[wk[w].prot.id].fd = f}

\* C1: per connection, on_close is invoked at most once, only on a connection
\* whose open handler invoked on_open, and exactly once by the time the close
\* event of such a connection has been handled; a repeated close event does
\* not invoke it again.
C1_OnCloseExactlyOnce ==
  \A f \in ConnFds :
    /\ closes[f] <= 1
    /\ closes[f] >= 1 => opened[f]
    /\ (opened[f] /\ conn[f] = "closed" /\ FdFree(f)) => closes[f] = 1

\* C2: for every fd, at most one worker is inside a dispatch handler of that
\* fd or inside a block submitted with defer for that fd.
C2_NoConcurrentCallbacks ==
  \A f \in ConnFds : Cardinality(CallbacksOf(f)) <= 1

\* A bound task of an open connection is running in concurrent mode while
\* another worker is idle: an event of that fd has to wait.
C2_Witness ==
  \E w \in Workers, v \in Workers :
    /\ wk[w].kind = "btask"
    /\ wk[w].pc = "ruby"
    /\ conn[wk[w].fd] = "open"
    /\ wk[v].pc = "idle"
    /\ settings.threads >= 0

\* C3: at every quiescent point the Registry holds exactly the objects bound
\* to open connections and the blocks of the submitted, unfinished tasks, and
\* its size is the number of those connections plus the number of those tasks.
C3_RegistryInvariant ==
  Quiescent =>
    /\ registry = {udata[f] : f \in BoundFds} \cup {Blk(b) : b \in queue}
    /\ Cardinality(registry) = Cardinality(BoundFds) + Cardinality(queue)

\* C4: a data, ping, shutdown or close event of a connection is delivered to
\* the object the connection is bound to at that moment: after upgrade(B), to
\* B and not to A.
C4_EventsGoToUpgraded ==
  [][\A w \in Workers :
       (/\ wk[w].pc = "h_call"
        /\ wk[w].kind \in {"data", "ping", "shutdown", "close"}
        /\ wk'[w].pc \in {"ruby", "ping_ret"})
       => udata[wk[w].fd] = wk[w].prot]_vars

Positive(r) == r > 0

\* C5: when the default on_data has returned, on_message was invoked once for
\* each read that returned more than zero bytes, in order, every read but the
\* last returned exactly the buffer's capacity, and the reads 1024, 1024, 0
\* gave two messages of 1024 bytes.
C5_DefaultOnData ==
  rd.pc = "done" =>
    /\ rd.msgs = SelectSeq(rd.reads, Positive)
    /\ \A i \in 1..(Len(rd.reads) - 1) : rd.reads[i] = BuffCap
    /\ rd.reads = <<1024, 1024, 0>> => rd.msgs = <<1024, 1024>>

C5_Witness ==
  /\ rd.pc = "done"
  /\ rd.reads = <<1024, 1024, 0>>
  /\ rd.msgs = <<1024, 1024>>

\* C6: the default ping method asks is_busy for the object's fd; when the
\* answer is false it calls close for that fd and not touch, when it is true
\* it calls touch for that fd and not close.
C6_DefaultPing ==
  pingLog # NoPing =>
    /\ ~pingLog.busy => pingLog.close = {pingLog.asked} /\ pingLog.touch = {}
    /\ pingLog.busy => pingLog.touch = {pingLog.asked} /\ pingLog.close = {}

C6_Witness ==
  /\ pingLog # NoPing
  /\ ~pingLog.busy
  /\ pingLog.asked = pingLog.fd
  /\ pingLog.close = {pingLog.fd}
  /\ pingLog.fd \in closing

\* C7: with threads = -1 a block given to run or defer is executed once, in
\* place, and is not handed to the reactor's task queue nor executed later.
C7_SyncNoDeferral ==
  settings.threads < 0 =>
    /\ queue = {}
    /\ \A w \in Workers : wk[w].kind \notin TaskKinds
    /\ \A b \in Blks : blocks[b].runs <= 1

\* The configurations C8 names: a port outside 0..65535 or not an integer, a
\* timeout outside 0..255, an address or busy message that is not a string, a
\* protocol that is not a class.
BadConfig(c) ==
  \/ c.protocol.t # "class"
  \/ c.port.t \notin {"nil", "fixnum"}
  \/ c.port.t = "fixnum" /\ (c.port.n < 0 \/ c.port.n > 65535)
  \/ c.timeout.t = "fixnum" /\ (c.timeout.n < 0 \/ c.timeout.n > 255)
  \/ c.address.t \notin {"nil", "string"}
  \/ c.busy_msg.t \notin {"nil", "string"}

BadCounts(c) ==
  \/ c.threads.t = "fixnum" /\ (c.threads.n < -1 \/ c.threads.n > 128)
  \/ c.processes.t = "fixnum" /\ (c.processes.n < 1 \/ c.processes.n > 32)

\* C9: for such a configuration start raises, naming the field, and listen is
\* never called.
C9_CountsValidated ==
  BadCounts(cfg) =>
    /\ startPc \in {"init", "raised"}
    /\ settings = [threads |-> 0, processes |-> 0]

\* C10: an error raised by a callback is handled inside the gateway: the
\* process goes on, no error stays pending once the gateway has returned, and
\* only a worker inside a callback holds the execution right.
C10_GatewayContainsErrors ==
  /\ ~crashed
  /\ ~errinfo
  /\ \A w \in Workers : gvl = w => wk[w].pc = "ruby"

\* C11: a step that binds the fd and connection_handle attributes of a
\* protocol object is a step of the worker that holds the execution right,
\* taken inside the runtime.
C11_RuntimeOpsHoldRight ==
  [][sockfd' # sockfd =>
       /\ gvl # 0
       /\ wk[gvl].pc = "ruby"
       /\ wk'[gvl] # wk[gvl]]_vars

\* C12: the block of a task leaves the Registry only by the step of its
\* runner that follows the call, it is still registered at that step, and
\* when the call ends, by return or by raise, the runner goes on to that step.
C12_TaskDeregistered ==
  [][/\ \A b \in Blks :
          (Blk(b) \in registry /\ Blk(b) \notin registry') =>
            \E w \in Workers : wk[w].pc = "task_rm" /\ wk[w].prot = Blk(b)
     /\ \A w \in Workers :
          (wk[w].pc = "task_rm") => wk[w].prot \in registry
     /\ \A w \in Workers :
          (/\ wk[w].kind \in TaskKinds
           /\ wk[w].pc = "ruby"
           /\ (gvl' # gvl \/ crashed' # crashed))
          => wk'[w].pc = "task_rm"]_vars

\* C13: a run or defer call made with no block raises to its caller and
\* leaves the Registry, the task queue and the blocks as they were; no such
\* call is ever accepted.
C13_NoBlockNoEffect ==
  [][\A w \in Workers :
       /\ wk[w].noblk # "accepted"
       /\ (wk[w].noblk # "raised" /\ wk'[w].noblk = "raised") =>
            /\ registry' = registry
            /\ queue' = queue
            /\ blocks' = blocks
            /\ nextBlk' = nextBlk]_vars

C13_Witness ==
  \E w \in Workers :
    /\ wk[w].pc = "ruby"
    /\ wk[w].noblk = "raised"
    /\ queue = {}
    /\ nextBlk = 1

\* C14: a failing upgrade returns to its caller and leaves the user-data
\* slots, the Registry, the objects' attributes and the on_open / on_close
\* history as they were.
C14_FailedUpgradeNoChange ==
  [][(\E w \in Workers : srv_upgrade_fail(w)) =>
       /\ udata' = udata
       /\ registry' = registry
       /\ sockfd' = sockfd
       /\ opened' = opened
       /\ closes' = closes
       /\ ~crashed']_vars

\* C15: when the constructor gives no object in the open handler, the handler
\* calls close for the fd and returns with the Registry and the user-data
\* untouched and the fd's slot empty; and no connection gets an on_close
\* without its open handler having invoked on_open.
C15_NoObjectClosesConnection ==
  [][/\ \A w \in Workers :
          (wk[w].pc = "open_new" /\ wk'[w] # wk[w] /\ wk'[w].pc # "open_reg") =>
            /\ wk'[w] = Idle
            /\ wk[w].fd \in closing'
            /\ registry' = registry
            /\ udata' = udata
            /\ udata[wk[w].fd] = NULL
     /\ \A w \in Workers :
          (wk[w].pc = "open_new" /\ crashed') => crashed
     /\ \A f \in ConnFds : closes'[f] >= 1 => opened'[f]]_vars

\* C16: in the close handler, the end of the on_close call, by return or by
\* raise, is followed by the removal of the object from the Registry and then
\* by the clearing of the fd's slot; a close event for an fd with an empty
\* slot starts no handler work and changes neither the Registry nor a slot.
C16_CloseHandlerSteps ==
  [][/\ \A w \in Workers :
          (/\ wk[w].kind = "close"
           /\ wk[w].pc = "ruby"
           /\ (gvl' # gvl \/ crashed' # crashed))
          => wk'[w].pc = "close_rm"
     /\ \A w \in Workers :
          (wk[w].pc = "close_rm" /\ wk'[w] # wk[w]) =>
            /\ wk'[w].pc = "close_clr"
            /\ registry' = registry \ {wk[w].prot}
            /\ udata' = udata
     /\ \A w \in Workers :
          (wk[w].pc = "close_clr" /\ wk'[w] # wk[w]) =>
            /\ wk'[w] = Idle
            /\ udata' = [udata EXCEPT ![wk[w].fd] = NULL]
            /\ registry' = registry
     /\ \A f \in ConnFds :
          ((\E w \in Workers : on_close(w, f)) /\ udata[f] = NULL) =>
            /\ wk' = wk
            /\ registry' = registry
            /\ udata' = udata
            /\ closes' = closes]_vars

\* The connection of fd f is busy for worker w: another worker is inside a
\* handler or a bound task of f.
Busy(f, w) ==
  \E v \in Workers \ {w} :
    wk[v].kind \in HandlerKinds \cup {"btask"} /\ wk[v].fd = f

\* C17: the ping handler calls a ping method that the object's class defines
\* only when the connection is busy; on a connection that is not busy the
\* event is not handed to such a method.
C17_PingOnlyWhenBusy ==
  [][\A w \in Workers :
       (wk[w].kind = "ping" /\ wk[w].pc = "h_call" /\ wk'[w].pc = "ruby")
       => Busy(wk[w].fd, w)]_vars

\* C18: Server.listen runs only while the starting thread does not hold the
\* execution right, the thread holds it before the listen and after start has
\* returned, start returns only after listen has returned, and once the
\* runtime has signalled shutdown (unblck has called stop_all) listen returns
\* and start returns.
C18_ListenWithoutRight ==
  /\ [](startPc \in {"listening", "stopping"} => gvl # MainThread)
  /\ [](startPc \in {"init", "validated", "raised", "done"} => gvl = MainThread)
  /\ [](startPc = "done" => startErr \in {"none", "listen"})
  /\ (startPc = "stopping") ~> (startPc = "done")

\* Another thread holds the execution right while listen blocks.
C18_Witness ==
  /\ startPc = "listening"
  /\ gvl \in Workers

\* C19: when the open handler enters on_open on an object, and when upgrade
\* has bound a new object and calls on_open on it, the object is in the
\* Registry, its fd attribute is the connection's fd and the fd's slot holds
\* it.
C19_BoundBeforeOnOpen ==
  [][/\ \A w \in Workers :
          (wk[w].kind = "open" /\ wk[w].pc = "h_call" /\ wk'[w].pc = "ruby") =>
            /\ wk[w].prot \in registry
            /\ sockfd[wk[w].prot.id] = wk[w].fd
            /\ udata[wk[w].fd] = wk[w].prot
     /\ \A w \in Workers :
          (wk[w].pc = "ruby" /\ gvl = w /\ wk'[w].ops # wk[w].ops /\ udata' # udata) =>
            LET f == sockfd[wk[w].self] IN
              /\ udata'[f] \in registry'
              /\ sockfd'[udata'[f].id] = f]_vars

\* C20: a data, ping or shutdown event invokes a callback only on a
\* connection that is open (its open event delivered, its close event not
\* yet), and a close event invokes on_close only if the connection has had
\* none since its open event.
C20_EventsOnlyWhileOpen ==
  [][\A w \in Workers :
       (wk[w].pc = "h_call" /\ wk'[w].pc \in {"ruby", "ping_ret"}) =>
         /\ wk[w].kind \in {"data", "ping", "shutdown"} => conn[wk[w].fd] = "open"
         /\ wk[w].kind = "close" => closes[wk[w].fd] = 0]_vars

C22_SlotWrittenByHandlingThread ==
  [][\A f \in ConnFds :
       udata'[f] # udata[f] =>
         \E w \in Workers :
           /\ wk[w].kind \in HandlerKinds \cup {"btask"}
           /\ wk[w].fd = f
           /\ wk'[w] # wk[w]]_vars

\* C23: a helper call made on an object whose fd attribute names an fd with a
\* cleared slot (the close handler of its connection has completed) asks
\* nothing of the reactor for that fd: no close, no slot write, no bound task.
C23_ClosedObjectIssuesNothing ==
  [][\A w \in Workers :
       ( /\ wk[w].pc = "ruby"
         /\ wk[w].self \in Objs
         /\ sockfd[wk[w].self] \in ConnFds
         /\ udata[sockfd[wk[w].self]] = NULL
         /\ wk'[w].ops # wk[w].ops ) =>
           /\ closing' = closing
           /\ udata' = udata
           /\ \A b \in Blks :
                (blocks'[b] # blocks[b] /\ blocks'[b].scope = "bound") =>
                  blocks'[b].fd # sockfd[wk[w].self]]_vars

\* C24: the shutdown handler of a bound fd goes to call on_shutdown on the
\* object in the fd's slot and, from the event to the return of the call,
\* the handler itself closes nothing, leaves the Registry, the slots and the
\* objects' attributes alone; for an fd with an empty slot nothing changes.
C24_ShutdownOnlyNotifies ==
  [][\A w \in Workers :
       /\ \A f \in ConnFds :
            on_shutdown(w, f) =>
              /\ <<conn, closing, registry, udata, sockfd, queue>>' =
                   <<conn, closing, registry, udata, sockfd, queue>>
              /\ IF udata[f] = NULL
                   THEN wk' = wk
                   ELSE /\ wk'[w].kind = "shutdown"
                        /\ wk'[w].pc = "h_call"
                        /\ wk'[w].prot = udata[f]
       /\ ( /\ wk[w].kind = "shutdown"
            /\ wk'[w] # wk[w]
            /\ ~(wk[w].pc = "ruby" /\ wk'[w].pc = "ruby") ) =>
              /\ <<conn, closing, registry, udata, sockfd, queue>>' =
                   <<conn, closing, registry, udata, sockfd, queue>>
              /\ wk[w].pc = "h_call" =>
                   (wk'[w].pc = "ruby" /\ wk'[w].self = wk[w].prot.id)
              /\ wk[w].pc = "ruby" => wk'[w] = Idle]_vars

C24_Witness ==
  \E w \in Workers :
    /\ wk[w].kind = "shutdown"
    /\ wk[w].pc = "ruby"
    /\ wk[w].ops = 0
    /\ conn[wk[w].fd] = "open"
    /\ wk[w].fd \notin closing
    /\ udata[wk[w].fd] = wk[w].prot
    /\ wk[w].prot \in registry

\* The last read was shorter than the buffer's capacity.
ShortRead ==
  /\ Len(rd.reads) > 0
  /\ rd.reads[Len(rd.reads)] < BuffCap

\* C25: no read follows a read that returned less than the buffer's capacity;
\* when the default on_data has returned after a last read of zero or less,
\* that read gave no on_message; after a last read of 1 to capacity-1 bytes it
\* gave exactly one, of that length; and once a read was short, on_data ends.
C25_LoopEndsAtShortRead ==
  /\ [](/\ \A i \in 1..Len(rd.reads) :
             rd.reads[i] < BuffCap => i = Len(rd.reads)
        /\ ShortRead => rd.pc # "read"
        /\ (rd.pc = "done" /\ ShortRead /\ rd.reads[Len(rd.reads)] <= 0) =>
             Len(rd.msgs) = Len(rd.reads) - 1
        /\ (rd.pc = "done" /\ ShortRead /\ rd.reads[Len(rd.reads)] > 0) =>
             /\ Len(rd.msgs) = Len(rd.reads)
             /\ rd.msgs[Len(rd.msgs)] = rd.reads[Len(rd.reads)])
  /\ (ShortRead ~> rd.pc \in {"done", "raised"})

C25_Witness ==
  /\ rd.pc = "done"
  /\ rd.reads = <<BuffCap, BuffCap - 1>>
  /\ rd.msgs = <<BuffCap, BuffCap - 1>>

\* C26: while the open handler holds the object its constructor call returned,
\* the object is in the Registry or the execution right is not free.
C26_NoUnregisteredGap ==
  \A w \in Workers :
    ( /\ wk[w].kind = "open"
      /\ wk[w].pc \in {"open_reg", "open_bind", "h_call"}
      /\ wk[w].prot.t = "obj" ) =>
        (wk[w].prot \in registry \/ gvl # 0)

\* C27: at every quiescent point the object in the slot of an open connection
\* is in the Registry.
C27_BoundObjectRegistered ==
  Quiescent =>
    \A f \in ConnFds :
      (conn[f] = "open" /\ udata[f] # NULL) => udata[f] \in registry

\* C28: slot 0 holds the configured protocol class at all times, and every
\* open handler constructs from that class.
C28_ProtocolTypeKept ==
  /\ udata[0] = rProtocolClass
  /\ \A w \in Workers : wk[w].pc = "open_new" => wk[w].prot = rProtocolClass

C30_UpgradeFrame ==
  [][\A w \in Workers :
       (srv_upgrade_class(w) \/ \E y \in Objs : srv_upgrade_instance(w, y)) =>
         LET c == sockfd[wk[w].self] IN
           /\ \A f \in Fds \ {c} : udata'[f] = udata[f]
           /\ \A x \in Objs :
                (\E f \in ConnFds \ {c} : conn[f] = "open" /\ udata[f] = Obj(x)) =>
                  sockfd'[x] = sockfd[x]
           /\ registry' \ {Obj(wk[w].self), udata'[c]} =
                registry \ {Obj(wk[w].self), udata'[c]}]_vars

====
